---------------------------- MODULE Spec2Model ----------------------------
(***************************************************************************)
(* Rainbow Delimiters for cljdoc.org (src/main.js).                        *)
(*                                                                         *)
(* Strings are sequences of one-character strings.  Numbers that the       *)
(* script holds as doubles are held exactly: a hue is the rational n/d,    *)
(* saturation and lightness are integer percentages, and the channel       *)
(* arithmetic of HSL_TO_RGB is carried out over a common denominator.      *)
(***************************************************************************)
EXTENDS Integers, Sequences, FiniteSets, TLC

(***************************************************************************)
(* Bounds of the model.                                                    *)
(***************************************************************************)
MaxLen == 6        \* longest enumerated text
MaxCount == 2      \* largest enumerated palette size besides the default
MaxGenCount == 12  \* largest count handed to generateBaseColors on its own
HueGrid == 15      \* hslToHex inputs: hues 0, HueGrid, 2*HueGrid, ... < 360
PctGrid == 5       \* hslToHex inputs: percentages 0, PctGrid, ... <= 100
MaxBlocks == 2     \* pre blocks the page can hold
MaxOther == 1      \* other nodes the page holds at a time
MaxQueue == 2      \* records the page queues before the observer's callback runs
MaxDepth == 14     \* deepest depth handed to adjustColor on its own

(***************************************************************************)
(* Program constants.                                                      *)
(***************************************************************************)
DefaultCount == 32
BaseSaturation == 70
BaseLightness == 50
MinSaturation == 40
DarkBaseLightness == 65
LightBaseLightness == 35

Abs(v) == IF v < 0 THEN 0 - v ELSE v
Max(a, b) == IF a >= b THEN a ELSE b

(***************************************************************************)
(* ColorUtils                                                              *)
(***************************************************************************)
\* Math.round: the nearest integer, halves towards +Infinity, of num/den (den > 0).
MathRound(num, den) == (2 * num + den) \div (2 * den)

\* HSL_TO_RGB.convert(h, s, l) with h = hn/hd, s and l the percentages passed in.
\*   c = (1 - |2l/100 - 1|) * s/100            = 2 * C2 / 10^4
\*   x = c * (1 - |(h/60) % 2 - 1|)            = 2 * C2 * F / (10^4 * 60 * hd)
\*   m = l/100 - c/2                           = (100 * l - C2) / 10^4
\* so (channel + m) * 255, with channel one of c, x, 0, is
\*   255 * (2 * C2 * G + (100 * l - C2) * 60 * hd) / (10^4 * 60 * hd)
\* for G one of 60 * hd, F, 0; 255 / (10^4 * 60) is 17 / 40000.
HSL_TO_RGB_convert(hn, hd, s, l) ==
    LET C2 == (50 - Abs(l - 50)) * s
        t  == hn % (120 * hd)                   \* ((h / 60) % 2) * 60 * hd
        F  == 60 * hd - Abs(t - 60 * hd)
        cG == 60 * hd
        xG == F
        rgb1 == IF hn < 60 * hd THEN <<cG, xG, 0>>
                ELSE IF hn < 120 * hd THEN <<xG, cG, 0>>
                ELSE IF hn < 180 * hd THEN <<0, cG, xG>>
                ELSE IF hn < 240 * hd THEN <<0, xG, cG>>
                ELSE IF hn < 300 * hd THEN <<xG, 0, cG>>
                ELSE <<cG, 0, xG>>
        Channel(G) == MathRound(17 * (2 * C2 * G + (100 * l - C2) * 60 * hd),
                                40000 * hd)
    IN  [r |-> Channel(rgb1[1]), g |-> Channel(rgb1[2]), b |-> Channel(rgb1[3])]

HexDigits == <<"0", "1", "2", "3", "4", "5", "6", "7",
               "8", "9", "a", "b", "c", "d", "e", "f">>

\* Number.prototype.toString(16) of an integer.
RECURSIVE ToString16(_)
ToString16(v) ==
    IF v < 0 THEN <<"-">> \o ToString16(0 - v)
    ELSE IF v < 16 THEN <<HexDigits[v + 1]>>
    ELSE ToString16(v \div 16) \o <<HexDigits[(v % 16) + 1]>>

\* String.prototype.padStart(targetLength, "0").
RECURSIVE padStart(_, _)
padStart(str, targetLength) ==
    IF Len(str) >= targetLength THEN str
    ELSE padStart(<<"0">> \o str, targetLength)

ChannelHexUnpadded(v) == ToString16(v)
ChannelHex(v) == padStart(ToString16(v), 2)

RgbToHex(rgb) ==
    <<"#">> \o ChannelHex(rgb.r) \o ChannelHex(rgb.g) \o ChannelHex(rgb.b)

hslToHex(hn, hd, s, l) ==
    CHOOSE hex \in {RgbToHex(rgb) : rgb \in {HSL_TO_RGB_convert(hn, hd, s, l)}} : TRUE

(***************************************************************************)
(* ColorPaletteGenerator                                                   *)
(***************************************************************************)
\* The color pushed in iteration k of the loop (k = 0, 1, ...): its hue is
\* k * (360 / count), held as the rational (k * 360) / count.
PaletteEntry(k, count) ==
    [h |-> [n |-> k * 360, d |-> count], s |-> BaseSaturation, l |-> BaseLightness]

generateBaseColorsOffByOne(count) ==
    [k \in 1..(count + 1) |-> PaletteEntry(k - 1, count)]
generateBaseColors(count) ==
    [k \in 1..count |-> PaletteEntry(k - 1, count)]

(***************************************************************************)
(* ColorAdjuster                                                           *)
(***************************************************************************)
\* adjustColor(baseColor, depth); isDarkMode is what detectDarkMode() returns.
adjustColorNoFloor(baseColor, d, isDarkMode) ==
    LET baseLightness == IF isDarkMode THEN DarkBaseLightness ELSE LightBaseLightness
        depthAdjustment == (d % 3) * (IF isDarkMode THEN -5 ELSE 5)
    IN  [h |-> baseColor.h,
         l |-> baseLightness + depthAdjustment,
         s |-> baseColor.s - ((d \div 3) * 10)]
adjustColor(baseColor, d, isDarkMode) ==
    LET baseLightness == IF isDarkMode THEN DarkBaseLightness ELSE LightBaseLightness
        depthAdjustment == (d % 3) * (IF isDarkMode THEN -5 ELSE 5)
    IN  [h |-> baseColor.h,
         l |-> baseLightness + depthAdjustment,
         s |-> Max(MinSaturation, baseColor.s - ((d \div 3) * 10))]

\* The object passed as baseColor, after the call: line 109 copies it and
\* lines 114 and 117 write to the copy.
adjustColorArgumentInPlace(baseColor, d, isDarkMode) == adjustColor(baseColor, d, isDarkMode)
adjustColorArgument(baseColor, d, isDarkMode) == baseColor


(***************************************************************************)
(* RainbowDelimiters                                                       *)
(***************************************************************************)
VARIABLES
    baseColors,   \* this.baseColors
    darkReader,   \* whether html[data-darkreader-mode] is in the document
    pc,           \* processText: "idle", "scan" (in the for loop), "done", "threw"
    text,         \* node.textContent
    result, lastIndex, depth, colorStack, usedColors,
    i,            \* the loop index (0-based, as in the script)
    decorations,  \* history: one record per span appended to result
    loaded,       \* whether the userscript's IIFE has run
    observing,    \* whether the MutationObserver is attached to document.body
    pres,         \* the pre blocks of the page
    otherNodes,   \* how many other nodes the page has inserted
    mutations,    \* MutationRecords queued for the observer's callback
    call, ret     \* a direct call of a static color function and what it returned

scanVars == <<pc, text, result, lastIndex, depth, colorStack, usedColors, i,
              decorations>>

delimiter_pairs == ("(" :> ")") @@ ("[" :> "]") @@ ("{" :> "}")

isOpening(char) == char \in DOMAIN delimiter_pairs
isClosingParenOnly(char) == char = ")"
isClosing(char) == \E k \in DOMAIN delimiter_pairs : delimiter_pairs[k] = char

\* text.substring(from, to), 0-based, end exclusive.
substring(str, from, to) == SubSeq(str, from + 1, to)

\* An array read that may yield undefined: <<>> is undefined, <<v>> is v.
\* (depth % 0 is NaN, and arr[NaN] is undefined.)
ArrayAtMod(arr, d) ==
    IF Len(arr) = 0 THEN <<>> ELSE <<arr[(d % Len(arr)) + 1]>>

\* getNextColor(depth): the color returned and usedColors after the call.
\* Palette entries are distinct objects with distinct hues, so Set membership
\* by identity is membership by value.
NextOfKeepsUsed(availableColors, palette, used, d) ==
    IF Len(availableColors) = 0
    THEN [color |-> ArrayAtMod(palette, d), used |-> used]
    ELSE LET color == availableColors[(d % Len(availableColors)) + 1]
         IN  [color |-> <<color>>, used |-> used \cup {color}]
NextOfMarksFallback(availableColors, palette, used, d) ==
    IF Len(availableColors) = 0
    THEN [color |-> ArrayAtMod(palette, d),
          used |-> {ArrayAtMod(palette, d)[k] : k \in 1..Len(ArrayAtMod(palette, d))}]
    ELSE LET color == availableColors[(d % Len(availableColors)) + 1]
         IN  [color |-> <<color>>, used |-> used \cup {color}]
NextOf(availableColors, palette, used, d) ==
    IF Len(availableColors) = 0
    THEN [color |-> ArrayAtMod(palette, d), used |-> {}]
    ELSE LET color == availableColors[(d % Len(availableColors)) + 1]
         IN  [color |-> <<color>>, used |-> used \cup {color}]

getNextColor(palette, used, d) ==
    CHOOSE r \in { NextOf(availableColors, palette, used, d)
                   : availableColors \in {SelectSeq(palette, LAMBDA c : c \notin used)} }
        : TRUE

\* colorStack.pop(): the value (or undefined) and the stack left.
StackPopPeek(stack) ==
    IF Len(stack) = 0 THEN [value |-> <<>>, stack |-> stack]
    ELSE [value |-> <<stack[Len(stack)]>>, stack |-> stack]
StackPopFront(stack) ==
    IF Len(stack) = 0 THEN [value |-> <<>>, stack |-> stack]
    ELSE [value |-> <<Head(stack)>>, stack |-> Tail(stack)]
StackPop(stack) ==
    IF Len(stack) = 0 THEN [value |-> <<>>, stack |-> stack]
    ELSE [value |-> <<stack[Len(stack)]>>, stack |-> SubSeq(stack, 1, Len(stack) - 1)]

\* depth++ on an opening delimiter.
DepthAfterOpening(d) == d + 1

\* depth = Math.max(0, depth - 1) on a closing delimiter.
DepthAfterClosingKept(d) == d
DepthAfterClosingUnclamped(d) == d - 1
DepthAfterClosing(d) == Max(0, d - 1)

\* lastIndex = i + 1 after a delimiter.
LastIndexStale(k) == k
LastIndexAfter(k) == k + 1

\* `<span style="color: ${hexColor}">${char}</span>`
SpanOpen == <<"<", "s", "p", "a", "n", " ", "s", "t", "y", "l", "e", "=", "\"",
              "c", "o", "l", "o", "r", ":", " ">>
SpanMid == <<"\"", ">">>
SpanClose == <<"<", "/", "s", "p", "a", "n", ">">>
Span(hexColor, char) == SpanOpen \o hexColor \o SpanMid \o <<char>> \o SpanClose

\* colorStack.push(baseColor): what goes on the stack.
PushedColorAdjusted(baseColor, adjustedColor) == adjustedColor
PushedColor(baseColor, adjustedColor) == baseColor

\* The locals of one processText activation.
InitialLocals(txt) ==
    [pc |-> "scan", text |-> txt, result |-> <<>>, lastIndex |-> 0, depth |-> 0,
     colorStack |-> <<>>, usedColors |-> {}, i |-> 0, decorations |-> <<>>]

\* The locals a processText activation starts with, prev being the locals the
\* activation before it ended with: lines 136-142 declare them anew in the
\* function body.
EnterLocalsKeepsUsedColors(prev, txt) ==
    [InitialLocals(txt) EXCEPT !.usedColors = prev.usedColors]
EnterLocals(prev, txt) == InitialLocals(txt)

\* The value of a one-element set.  { F(x) : x \in {e} } evaluates e once and
\* names its value x, as a `const x = e` does.
TheOne(S) == CHOOSE x \in S : TRUE

\* Line 164: isOpening ? getNextColor(depth) : colorStack.pop() || getNextColor(depth).
\* The base color (or undefined), and the stack and usedColors it leaves.
PickBaseColor(st, palette) ==
    LET opening == isOpening(st.text[st.i + 1])
        popped == StackPop(st.colorStack)
        fromStack == (~opening) /\ popped.value # <<>>
        next == getNextColor(palette, st.usedColors, st.depth)
    IN  IF fromStack
        THEN [baseColor |-> popped.value, source |-> "stack",
              colorStack |-> popped.stack, usedColors |-> st.usedColors]
        ELSE TheOne({ [baseColor |-> n.color, source |-> "getNextColor",
                       colorStack |-> st.colorStack, usedColors |-> n.used]
                      : n \in {next} })

\* Lines 168-177: the span is appended, the stack and depth move, lastIndex
\* follows; then i++.
Decorated(st, picked, adjustedColor, hexColor) ==
    LET char == st.text[st.i + 1]
        opening == isOpening(char)
    IN  [st EXCEPT
           !.result = st.result \o substring(st.text, st.lastIndex, st.i)
                                \o Span(hexColor, char),
           !.colorStack = IF opening THEN Append(picked.colorStack,
                                      PushedColor(picked.baseColor[1], adjustedColor))
                          ELSE picked.colorStack,
           !.usedColors = picked.usedColors,
           !.depth = IF opening THEN DepthAfterOpening(st.depth)
                     ELSE DepthAfterClosing(st.depth),
           !.lastIndex = LastIndexAfter(st.i),
           !.i = st.i + 1,
           !.decorations = Append(st.decorations,
               [pos |-> st.i, char |-> char,
                class |-> IF opening THEN "opening" ELSE "closing",
                depth |-> st.depth,
                source |-> picked.source,
                baseColor |-> picked.baseColor[1],
                adjustedColor |-> adjustedColor,
                hexColor |-> hexColor])]

\* Line 166: hexColor = ColorUtils.hslToHex(adjustedColor.h, .s, .l).
WithAdjusted(st, picked, adjustedColor) ==
    TheOne({ Decorated(st, picked, adjustedColor, hexColor)
             : hexColor \in {hslToHex(adjustedColor.h.n, adjustedColor.h.d,
                                      adjustedColor.s, adjustedColor.l)} })

\* Line 165: adjustedColor = ColorAdjuster.adjustColor(baseColor, depth), which
\* throws a TypeError reading baseColor.s when baseColor is undefined.
WithBase(st, picked, isDarkMode) ==
    IF picked.baseColor = <<>>
    THEN [st EXCEPT !.pc = "threw",
                    !.result = st.result \o substring(st.text, st.lastIndex, st.i),
                    !.colorStack = picked.colorStack,
                    !.usedColors = picked.usedColors]
    ELSE TheOne({ WithAdjusted(st, picked, adjustedColor)
                  : adjustedColor \in {adjustColor(picked.baseColor[1], st.depth,
                                                   isDarkMode)} })

\* One iteration of the for loop on a delimiter character (the body of
\* `if (isOpening || isClosing)`), followed by i++.
DelimiterIteration(st, palette, isDarkMode) ==
    TheOne({ WithBase(st, picked, isDarkMode) : picked \in {PickBaseColor(st, palette)} })

\* this.baseColors after that iteration.  Its entries are the objects that
\* getNextColor returns and colorStack holds, and the iteration hands the one
\* it picked to adjustColor; filter (line 145) builds a new array.
PaletteAfterIteration(st, palette, isDarkMode) ==
    TheOne({ IF picked.baseColor = <<>> THEN palette
             ELSE [k \in 1..Len(palette) |->
                      IF palette[k] = picked.baseColor[1]
                      THEN adjustColorArgument(palette[k], st.depth, isDarkMode)
                      ELSE palette[k]]
             : picked \in {PickBaseColor(st, palette)} })

\* One iteration on any other character: only i++.
OtherIterationStuck(st) == st
OtherIteration(st) == [st EXCEPT !.i = st.i + 1]

\* After the loop: result += text.substring(lastIndex); return result.
AfterLoop(st) ==
    [st EXCEPT !.pc = "done",
               !.result = st.result \o substring(st.text, st.lastIndex, Len(st.text))]

Locals ==
    [pc |-> pc, text |-> text, result |-> result, lastIndex |-> lastIndex,
     depth |-> depth, colorStack |-> colorStack, usedColors |-> usedColors,
     i |-> i, decorations |-> decorations]

SetLocals(st) ==
    /\ pc' = st.pc
    /\ text' = st.text
    /\ result' = st.result
    /\ lastIndex' = st.lastIndex
    /\ depth' = st.depth
    /\ colorStack' = st.colorStack
    /\ usedColors' = st.usedColors
    /\ i' = st.i
    /\ decorations' = st.decorations


docVars == <<loaded, observing, pres, otherNodes, mutations>>
pureVars == <<call, ret>>
vars == <<baseColors, darkReader, scanVars, docVars, pureVars>>

\* processText(node), start to return, as one value.
RECURSIVE RunLoop(_, _, _)
RunLoop(st, palette, isDarkMode) ==
    IF st.pc # "scan" THEN st
    ELSE IF st.i >= Len(st.text) THEN AfterLoop(st)
    ELSE IF isOpening(st.text[st.i + 1]) \/ isClosing(st.text[st.i + 1])
         THEN TheOne({ RunLoop(n, palette, isDarkMode)
                       : n \in {DelimiterIteration(st, palette, isDarkMode)} })
         ELSE TheOne({ RunLoop(n, palette, isDarkMode) : n \in {OtherIteration(st)} })

processText(txt, palette, isDarkMode) ==
    TheOne({ RunLoop(st, palette, isDarkMode) : st \in {InitialLocals(txt)} })

(***************************************************************************)
(* Inputs.                                                                 *)
(***************************************************************************)
Alphabet == {"(", ")", "x"}
SeqsUpTo(S, n) == UNION {[1..k -> S] : k \in 0..n}

\* The texts the specification's examples use.
ExampleTexts ==
    { <<"(", "a", "[", "b", "]", "{", "c", "}", ")">>,
      <<"(", "(", "(", ")", ")", ")">>,
      <<"(", "x", ")">>,
      <<")", ")", ")">> }

\* Texts whose delimiters are of mixed kinds.
MixedKindTexts ==
    { <<"(", "]">>, <<"[", "}">>, <<"{", ")">>,
      <<"[", "(", "x", ")", "]">>, <<"{", "[", "}", "]", "(">>, <<"}", "]", "[", "{">> }

Texts == SeqsUpTo(Alphabet, MaxLen) \cup ExampleTexts \cup MixedKindTexts

Counts == (1..MaxCount) \cup {DefaultCount}

IdleLocals ==
    [pc |-> "idle", text |-> <<>>, result |-> <<>>, lastIndex |-> 0, depth |-> 0,
     colorStack |-> <<>>, usedColors |-> {}, i |-> 0, decorations |-> <<>>]

LocalsAre(st) ==
    /\ pc = st.pc
    /\ text = st.text
    /\ result = st.result
    /\ lastIndex = st.lastIndex
    /\ depth = st.depth
    /\ colorStack = st.colorStack
    /\ usedColors = st.usedColors
    /\ i = st.i
    /\ decorations = st.decorations

NoCall == [fn |-> "none"]
NoReturn == [done |-> FALSE]

Blocks == 1..MaxBlocks

AbsentPre ==
    [inDoc |-> FALSE, textContent |-> <<>>, innerHTML |-> <<>>, processed |-> FALSE,
     timesProcessed |-> 0, skipped |-> FALSE, processedDark |-> FALSE]

\* A page without pre blocks, the userscript not run.
InitDocEmpty ==
    /\ loaded = FALSE
    /\ observing = FALSE
    /\ pres = [b \in Blocks |-> AbsentPre]
    /\ otherNodes = 0
    /\ mutations = <<>>

(***************************************************************************)
(* Spec: processText called on nodes of any text, on an instance built     *)
(* with a palette of any enumerated size.                                  *)
(***************************************************************************)
Init ==
    /\ \E count \in Counts : baseColors = generateBaseColors(count)
    /\ darkReader \in BOOLEAN
    /\ LocalsAre(IdleLocals)
    /\ InitDocEmpty
    /\ call = NoCall /\ ret = NoReturn

\* processText(node) is entered: lines 136-142.
Call ==
    /\ pc = "idle"
    /\ \E txt \in Texts : SetLocals(EnterLocals(Locals, txt))
    /\ UNCHANGED <<baseColors, darkReader, docVars, pureVars>>

ProcessOpening ==
    /\ pc = "scan" /\ i < Len(text)
    /\ isOpening(text[i + 1])
    /\ \E st \in {DelimiterIteration(Locals, baseColors, darkReader)} : SetLocals(st)
    /\ baseColors' = PaletteAfterIteration(Locals, baseColors, darkReader)
    /\ UNCHANGED <<darkReader, docVars, pureVars>>

ProcessClosing ==
    /\ pc = "scan" /\ i < Len(text)
    /\ isClosing(text[i + 1])
    /\ \E st \in {DelimiterIteration(Locals, baseColors, darkReader)} : SetLocals(st)
    /\ baseColors' = PaletteAfterIteration(Locals, baseColors, darkReader)
    /\ UNCHANGED <<darkReader, docVars, pureVars>>

ProcessOther ==
    /\ pc = "scan" /\ i < Len(text)
    /\ ~isOpening(text[i + 1]) /\ ~isClosing(text[i + 1])
    /\ \E st \in {OtherIteration(Locals)} : SetLocals(st)
    /\ UNCHANGED <<baseColors, darkReader, docVars, pureVars>>

Return ==
    /\ pc = "scan" /\ i >= Len(text)
    /\ \E st \in {AfterLoop(Locals)} : SetLocals(st)
    /\ UNCHANGED <<baseColors, darkReader, docVars, pureVars>>

\* The caller has consumed the returned string; the activation's locals are gone.
Discard ==
    /\ pc \in {"done", "threw"}
    /\ SetLocals(IdleLocals)
    /\ UNCHANGED <<baseColors, darkReader, docVars, pureVars>>

\* Dark Reader is switched on or off; the script is single-threaded, so not
\* while processText runs.
ToggleDarkReader ==
    /\ pc = "idle"
    /\ darkReader' = ~darkReader
    /\ UNCHANGED <<baseColors, scanVars, docVars, pureVars>>

ScanStep == ProcessOpening \/ ProcessClosing \/ ProcessOther \/ Return

Next ==
    \/ Call
    \/ ProcessOpening
    \/ ProcessClosing
    \/ ProcessOther
    \/ Return
    \/ Discard
    \/ ToggleDarkReader

Spec == Init /\ [][Next]_vars

\* The loop runs to completion once entered.
LiveSpec == Spec /\ WF_vars(ScanStep)


(***************************************************************************)
(* SpecColor: the static color functions called on their own.              *)
(***************************************************************************)
Percentages == {v \in 0..100 : v % PctGrid = 0} \cup {100}

Hues ==
    {[n |-> v, d |-> 1] : v \in {w \in 0..359 : w % HueGrid = 0}}
        \cup {PaletteEntry(k, DefaultCount).h : k \in 0..(DefaultCount - 1)}

\* The colors adjustColor is called on: the palette's, and colors of other
\* saturations and lightnesses.
AdjustBases ==
    {generateBaseColors(DefaultCount)[k] : k \in 1..DefaultCount}
    \cup {[h |-> [n |-> 120, d |-> 1], s |-> s, l |-> l]
            : s \in Percentages, l \in {0, BaseLightness, 100}}

ColorCalls ==
    {[fn |-> "hslToHex", h |-> h, s |-> s, l |-> l]
        : h \in Hues, s \in Percentages, l \in Percentages}
    \cup {[fn |-> "generateBaseColors", count |-> c] : c \in 0..MaxGenCount}
    \cup {[fn |-> "adjustColor", baseColor |-> c, depth |-> d]
            : c \in AdjustBases, d \in 0..MaxDepth}

InitColor ==
    /\ baseColors = generateBaseColors(DefaultCount)
    /\ darkReader \in BOOLEAN
    /\ LocalsAre(IdleLocals)
    /\ InitDocEmpty
    /\ call \in ColorCalls
    /\ ret = NoReturn

CallHslToHex ==
    /\ call.fn = "hslToHex" /\ ~ret.done
    /\ ret' = [done |-> TRUE, value |-> hslToHex(call.h.n, call.h.d, call.s, call.l)]
    /\ UNCHANGED <<baseColors, darkReader, scanVars, docVars, call>>

CallGenerateBaseColors ==
    /\ call.fn = "generateBaseColors" /\ ~ret.done
    /\ ret' = [done |-> TRUE, value |-> generateBaseColors(call.count)]
    /\ UNCHANGED <<baseColors, darkReader, scanVars, docVars, call>>

\* ColorAdjuster.adjustColor(baseColor, depth); detectDarkMode() reads the
\* document.
CallAdjustColor ==
    /\ call.fn = "adjustColor" /\ ~ret.done
    /\ ret' = [done |-> TRUE,
               value |-> adjustColor(call.baseColor, call.depth, darkReader)]
    /\ call' = [call EXCEPT
                  !.baseColor = adjustColorArgument(call.baseColor, call.depth, darkReader)]
    /\ UNCHANGED <<baseColors, darkReader, scanVars, docVars>>

NextColor == CallHslToHex \/ CallGenerateBaseColors \/ CallAdjustColor

SpecColor == InitColor /\ [][NextColor]_vars

(***************************************************************************)
(* SpecDoc: the userscript on a page.  Each handler runs to completion.    *)
(***************************************************************************)
DocTexts == { <<>>, <<"x">>, <<"(", "x", ")">> }

\* document.querySelectorAll(`pre:not([data-rainbow-processed])`)
SelectAllPreBlocks(blocks) == {b \in DOMAIN blocks : blocks[b].inDoc}
SelectPreBlocks(blocks) ==
    {b \in DOMAIN blocks : blocks[b].inDoc /\ ~blocks[b].processed}

\* The childList record that `pre.innerHTML = html` queues for an attached
\* observer: none when no child is removed and none added.
InnerHTMLRecords(oldText, html) ==
    IF Len(oldText) = 0 /\ Len(html) = 0 THEN <<>>
    ELSE <<[addedNodes |-> IF Len(html) > 0 THEN 1 ELSE 0]>>

\* The body of the forEach callback for pre block b (lines 188-189); a throw
\* of processText leaves the block as it was and ends applyToDocument.
ProcessPre(d, b, palette, isDarkMode, attached) ==
    TheOne({ IF r.pc = "threw" THEN [d EXCEPT !.threw = TRUE]
             ELSE [d EXCEPT
                     !.pres[b].innerHTML = r.result,
                     !.pres[b].processed = TRUE,
                     !.pres[b].timesProcessed = @ + 1,
                     !.pres[b].processedDark = isDarkMode,
                     !.last = r,
                     !.mutations = IF attached
                                   THEN @ \o InnerHTMLRecords(d.pres[b].textContent, r.result)
                                   ELSE @]
             : r \in {RunLoop(EnterLocals(d.last, d.pres[b].textContent), palette,
                               isDarkMode)} })

RECURSIVE ForEachPre(_, _, _, _, _, _)
ForEachPre(d, preBlocks, b, palette, isDarkMode, attached) ==
    IF b > MaxBlocks \/ d.threw THEN d
    ELSE IF b \in preBlocks
         THEN TheOne({ ForEachPre(n, preBlocks, b + 1, palette, isDarkMode, attached)
                       : n \in {ProcessPre(d, b, palette, isDarkMode, attached)} })
         ELSE ForEachPre(d, preBlocks, b + 1, palette, isDarkMode, attached)

\* applyToDocument(): d is [pres, mutations, threw, last], last being the
\* locals the latest processText activation ended with.
applyToDocument(d, palette, isDarkMode, attached) ==
    TheOne({ ForEachPre(
                [d EXCEPT !.pres = [b \in DOMAIN d.pres |->
                    IF d.pres[b].inDoc /\ b \notin preBlocks
                    THEN [d.pres[b] EXCEPT !.skipped = TRUE] ELSE d.pres[b]]],
                preBlocks, 1, palette, isDarkMode, attached)
             : preBlocks \in {SelectPreBlocks(d.pres)} })

\* The observer's callback: mutations.forEach(...) over the records delivered.
RECURSIVE ForEachMutation(_, _, _, _, _)
ForEachMutation(d, records, k, palette, isDarkMode) ==
    IF k > Len(records) \/ d.threw THEN d
    ELSE IF records[k].addedNodes > 0
         THEN TheOne({ ForEachMutation(n, records, k + 1, palette, isDarkMode)
                       : n \in {applyToDocument(d, palette, isDarkMode, TRUE)} })
         ELSE ForEachMutation(d, records, k + 1, palette, isDarkMode)

InitialPres ==
    [Blocks -> {AbsentPre} \cup {[AbsentPre EXCEPT !.inDoc = TRUE, !.textContent = t]
                                    : t \in DocTexts}]

InitDoc ==
    /\ baseColors = <<>>
    /\ darkReader \in BOOLEAN
    /\ LocalsAre(IdleLocals)
    /\ loaded = FALSE
    /\ observing = FALSE
    /\ pres \in InitialPres
    /\ otherNodes = 0
    /\ mutations = <<>>
    /\ call = NoCall /\ ret = NoReturn

\* The IIFE (lines 210-216): new RainbowDelimiters(), applyToDocument(), observe().
Load ==
    /\ ~loaded
    /\ \E palette \in {generateBaseColors(DefaultCount)} :
         /\ baseColors' = palette
         /\ \E d \in {applyToDocument([pres |-> pres, mutations |-> mutations,
                                       threw |-> FALSE, last |-> Locals],
                                      palette, darkReader, observing)} :
              /\ pres' = d.pres
              /\ mutations' = d.mutations
              /\ observing' = ~d.threw
    /\ loaded' = TRUE
    /\ UNCHANGED <<darkReader, scanVars, otherNodes, pureVars>>

PageRecord(n) == IF observing THEN Append(mutations, [addedNodes |-> n]) ELSE mutations

\* The page inserts a pre block.
PageAddsPre ==
    /\ Len(mutations) < MaxQueue
    /\ \E b \in Blocks, t \in DocTexts :
         /\ ~pres[b].inDoc
         /\ pres' = [pres EXCEPT ![b] = [AbsentPre EXCEPT !.inDoc = TRUE, !.textContent = t]]
    /\ mutations' = PageRecord(1)
    /\ UNCHANGED <<baseColors, darkReader, scanVars, loaded, observing, otherNodes, pureVars>>

\* The page inserts a node that is no pre block.
PageAddsOther ==
    /\ Len(mutations) < MaxQueue
    /\ otherNodes < MaxOther
    /\ otherNodes' = otherNodes + 1
    /\ mutations' = PageRecord(1)
    /\ UNCHANGED <<baseColors, darkReader, scanVars, loaded, observing, pres, pureVars>>

\* The page removes such a node: a record with removedNodes only.
PageRemovesOther ==
    /\ Len(mutations) < MaxQueue
    /\ otherNodes > 0
    /\ otherNodes' = otherNodes - 1
    /\ mutations' = PageRecord(0)
    /\ UNCHANGED <<baseColors, darkReader, scanVars, loaded, observing, pres, pureVars>>

\* The MutationObserver delivers the queued records (lines 194-200).
ObserverCallback ==
    /\ observing
    /\ mutations # <<>>
    /\ UNCHANGED <<baseColors, darkReader, scanVars, loaded, observing, otherNodes, pureVars>>
    /\ \E d \in {ForEachMutation([pres |-> pres, mutations |-> <<>>, threw |-> FALSE,
                                  last |-> Locals],
                                 mutations, 1, baseColors, darkReader)} :
         /\ pres' = d.pres
         /\ mutations' = d.mutations

NextDoc ==
    \/ Load
    \/ PageAddsPre
    \/ PageAddsOther
    \/ PageRemovesOther
    \/ ObserverCallback
    \/ ToggleDarkReader

SpecDoc == InitDoc /\ [][NextDoc]_vars

\* The browser runs the userscript once the page has loaded, and delivers
\* queued mutation records to the observer's callback.
LiveSpecDoc == SpecDoc /\ WF_vars(Load) /\ WF_vars(ObserverCallback)

(***************************************************************************)
(* Vocabulary of the properties.                                           *)
(***************************************************************************)
isDelimiter(char) == isOpening(char) \/ isClosing(char)

\* Balanced and correctly nested, kinds included: expected holds the closing
\* characters still owed, innermost last.
RECURSIVE BalancedFrom(_, _, _)
BalancedFrom(txt, k, expected) ==
    IF k > Len(txt) THEN expected = <<>>
    ELSE IF isOpening(txt[k])
         THEN BalancedFrom(txt, k + 1, Append(expected, delimiter_pairs[txt[k]]))
    ELSE IF isClosing(txt[k])
         THEN /\ expected # <<>>
              /\ expected[Len(expected)] = txt[k]
              /\ BalancedFrom(txt, k + 1, SubSeq(expected, 1, Len(expected) - 1))
    ELSE BalancedFrom(txt, k + 1, expected)

Balanced(txt) == BalancedFrom(txt, 1, <<>>)

Openings(decos) == {k \in DOMAIN decos : decos[k].class = "opening"}
Closings(decos) == {k \in DOMAIN decos : decos[k].class = "closing"}

\* The opening decoration that closing decoration k closes: the nearest earlier
\* opening with as many openings as closings in between; 0 when there is none.
RECURSIVE MatchBack(_, _, _)
MatchBack(decos, j, pending) ==
    IF j = 0 THEN 0
    ELSE IF decos[j].class = "closing" THEN MatchBack(decos, j - 1, pending + 1)
    ELSE IF pending = 0 THEN j
    ELSE MatchBack(decos, j - 1, pending - 1)

MatchOf(decos, k) == MatchBack(decos, k - 1, 0)

\* The base colors of the openings not yet closed, outermost first.
RECURSIVE OpenBaseColors(_, _)
OpenBaseColors(decos, k) ==
    IF k > Len(decos) THEN <<>>
    ELSE IF /\ decos[k].class = "opening"
            /\ ~\E c \in Closings(decos) : MatchOf(decos, c) = k
         THEN <<decos[k].baseColor>> \o OpenBaseColors(decos, k + 1)
         ELSE OpenBaseColors(decos, k + 1)

\* Openings a < b are consecutive siblings: the same depth, and everything
\* decorated between them lies inside a (a's own closer included).
Siblings(decos, a, b) ==
    /\ a < b
    /\ decos[a].class = "opening" /\ decos[b].class = "opening"
    /\ decos[a].depth = decos[b].depth
    /\ \A k \in (a + 1)..(b - 1) : decos[k].depth > decos[a].depth

(***************************************************************************)
(* C1: for balanced, correctly nested text, after the final character      *)
(* depth is 0 and as many decorations were emitted for opening delimiters  *)
(* as for closing delimiters.                                              *)
(***************************************************************************)
C1_BalancedReturnsToZero ==
    (pc \in {"scan", "done"} /\ i = Len(text) /\ Balanced(text)) =>
        /\ depth = 0
        /\ Cardinality(Openings(decorations)) = Cardinality(Closings(decorations))

C1_Witness ==
    /\ pc = "done" /\ Balanced(text)
    /\ \E k \in DOMAIN decorations : decorations[k].depth = 2
    /\ Cardinality(Openings(decorations)) >= 2

(***************************************************************************)
(* C2: depth is never negative; on text whose delimiters are all closing   *)
(* delimiters the scan does not throw, depth is 0 throughout, and each     *)
(* closing character scanned has exactly one decoration, colored by        *)
(* getNextColor because the stack is empty.                                *)
(***************************************************************************)
OnlyClosing(txt) == \A k \in DOMAIN txt : ~isOpening(txt[k])

C2_DepthClamped ==
    /\ depth >= 0
    /\ OnlyClosing(text) =>
        /\ pc # "threw"
        /\ depth = 0
        /\ Len(decorations) = Cardinality({k \in 1..i : isClosing(text[k])})
        /\ \A k \in DOMAIN decorations :
              /\ decorations[k].class = "closing"
              /\ decorations[k].source = "getNextColor"
              /\ decorations[k].depth = 0

C2_Witness ==
    /\ pc = "done"
    /\ text = <<")", ")", ")">>
    /\ Len(decorations) = 3
    /\ depth = 0

(***************************************************************************)
(* C3: the returned string is the text's characters in order, each         *)
(* delimiter inside exactly one color span and every other character bare; *)
(* removing the spans gives back the text, under either theme.             *)
(***************************************************************************)
HexDigitSet == {HexDigits[k] : k \in DOMAIN HexDigits}

\* out begins with <span style="color: #hhhhhh">c</span>
SpanAtHead(out) ==
    /\ Len(out) >= 37
    /\ SubSeq(out, 1, 20) = SpanOpen
    /\ out[21] = "#"
    /\ \A k \in 22..27 : out[k] \in HexDigitSet
    /\ SubSeq(out, 28, 29) = SpanMid
    /\ SubSeq(out, 31, 37) = SpanClose

\* The characters of out, each with whether a color span wraps it.
RECURSIVE Tokens(_)
Tokens(out) ==
    IF out = <<>> THEN <<>>
    ELSE IF SpanAtHead(out)
         THEN <<[char |-> out[30], wrapped |-> TRUE]>> \o Tokens(SubSeq(out, 38, Len(out)))
         ELSE <<[char |-> out[1], wrapped |-> FALSE]>> \o Tokens(Tail(out))

C3_MarkupPreservesText ==
    pc = "done" =>
        LET tk == Tokens(result)
        IN  /\ Len(tk) = Len(text)
            /\ \A k \in DOMAIN tk :
                  /\ tk[k].char = text[k]
                  /\ tk[k].wrapped <=> isDelimiter(text[k])
            /\ (\A k \in DOMAIN text : ~isDelimiter(text[k])) => result = text

C3_Witness ==
    /\ pc = "done"
    /\ darkReader
    /\ Len(text) >= 4
    /\ isDelimiter(text[1]) /\ ~isDelimiter(text[2])
    /\ isDelimiter(text[3]) /\ ~isDelimiter(text[4])

(***************************************************************************)
(* C4: in balanced text a closing delimiter is adjusted at the depth of    *)
(* the opening delimiter it closes, so the pair has one final color.       *)
(***************************************************************************)
C4_PairSameAdjustedColor ==
    Balanced(text) =>
        \A k \in Closings(decorations) :
            LET j == MatchOf(decorations, k)
            IN  j # 0 =>
                  /\ decorations[k].depth = decorations[j].depth
                  /\ decorations[k].hexColor = decorations[j].hexColor

(***************************************************************************)
(* C5: in balanced text every closing delimiter takes, from the stack, the *)
(* base color given to the opening delimiter it closes, and the stack      *)
(* holds exactly the base colors of the openings not yet closed.           *)
(***************************************************************************)
C5_CloserPopsOpenersBase ==
    Balanced(text) =>
        /\ \A k \in Closings(decorations) :
              /\ MatchOf(decorations, k) # 0
              /\ decorations[k].source = "stack"
              /\ decorations[k].baseColor =
                     decorations[MatchOf(decorations, k)].baseColor
        /\ colorStack = OpenBaseColors(decorations, 1)

C5_Witness ==
    /\ pc = "done" /\ Balanced(text)
    /\ \E j, k \in Closings(decorations) :
          /\ j < k
          /\ decorations[j].baseColor # decorations[k].baseColor
          /\ MatchOf(decorations, k) < MatchOf(decorations, j)

(***************************************************************************)
(* C6: with a palette of more than one color, two consecutive sibling      *)
(* opening delimiters inside an enclosing delimiter never get the same     *)
(* base color.                                                             *)
(***************************************************************************)
C6_SiblingsDiffer ==
    Len(baseColors) > 1 =>
        \A a, b \in Openings(decorations) :
            (Siblings(decorations, a, b) /\ decorations[a].depth >= 1) =>
                decorations[a].baseColor # decorations[b].baseColor

(***************************************************************************)
(* C8: once entered, the loop reaches the end of the text and processText  *)
(* returns; every step in between advances the index by one and leaves the *)
(* text alone.                                                             *)
(***************************************************************************)
C8_ScanTerminates ==
    /\ [][(pc = "scan" /\ pc' = "scan") => (i' = i + 1 /\ text' = text)]_vars
    /\ (pc = "scan") ~> (pc = "done")

C8_Witness ==
    /\ pc = "done"
    /\ i = Len(text)
    /\ ~Balanced(text)
    /\ Len(decorations) > Len(baseColors)

(***************************************************************************)
(* C7: no pre block is handed to processText twice; a block has been       *)
(* processed exactly when it carries the processed marker.                 *)
(***************************************************************************)
C7_ProcessedAtMostOnce ==
    \A b \in Blocks :
        /\ pres[b].timesProcessed <= 1
        /\ pres[b].processed <=> (pres[b].timesProcessed = 1)

\* Two blocks processed in different applyToDocument calls, each passed over
\* by a later call.
C7_Witness ==
    /\ \A b \in Blocks : pres[b].timesProcessed = 1 /\ pres[b].skipped
    /\ \E b \in Blocks : Len(pres[b].innerHTML) > Len(pres[b].textContent)
    /\ mutations = <<>>

(***************************************************************************)
(* C9: generateBaseColors(count) returns count colors, the i-th of hue     *)
(* i * 360 / count, strictly increasing within [0, 360), saturation 70,    *)
(* lightness 50; none for count 0.                                         *)
(***************************************************************************)
C9_PaletteEvenlySpaced ==
    (ret.done /\ call.fn = "generateBaseColors") =>
        /\ Len(ret.value) = call.count
        /\ \A k \in DOMAIN ret.value :
              /\ ret.value[k].h.d > 0
              /\ ret.value[k].h.n * call.count = (k - 1) * 360 * ret.value[k].h.d
              /\ ret.value[k].h.n >= 0
              /\ ret.value[k].h.n < 360 * ret.value[k].h.d
              /\ ret.value[k].s = 70
              /\ ret.value[k].l = 50
        /\ \A j, k \in DOMAIN ret.value :
              j < k => ret.value[j].h.n * ret.value[k].h.d
                          < ret.value[k].h.n * ret.value[j].h.d
        /\ call.count = 0 => ret.value = <<>>

C9_Witness ==
    /\ ret.done /\ call.fn = "generateBaseColors"
    /\ call.count = 7
    /\ Len(ret.value) = 7

(***************************************************************************)
(* C10: for h in [0,360) and s, l in [0,100], every channel of the         *)
(* converted color is an integer in 0..255 and hslToHex returns "#" and    *)
(* six lowercase hex digits that decode to those channels.                 *)
(***************************************************************************)
HexValue(ch) == CHOOSE v \in 0..15 : HexDigits[v + 1] = ch
DecodePair(str, k) == 16 * HexValue(str[k]) + HexValue(str[k + 1])

C10_HexRoundTrip ==
    (ret.done /\ call.fn = "hslToHex") =>
        LET rgb == HSL_TO_RGB_convert(call.h.n, call.h.d, call.s, call.l)
        IN  /\ rgb.r \in 0..255 /\ rgb.g \in 0..255 /\ rgb.b \in 0..255
            /\ Len(ret.value) = 7
            /\ ret.value[1] = "#"
            /\ \A k \in 2..7 : ret.value[k] \in HexDigitSet
            /\ DecodePair(ret.value, 2) = rgb.r
            /\ DecodePair(ret.value, 4) = rgb.g
            /\ DecodePair(ret.value, 6) = rgb.b

C10_Witness ==
    /\ ret.done /\ call.fn = "hslToHex"
    /\ LET rgb == HSL_TO_RGB_convert(call.h.n, call.h.d, call.s, call.l)
       IN  rgb.r >= 16 /\ rgb.g > 0 /\ rgb.g < 16 /\ rgb.b = 0


(***************************************************************************)
(* C11.  getNextColor follows its policy at every call of the scan: when    *)
(* some palette color is not in usedColors it returns the entry at index    *)
(* depth mod (number of unused colors) of the palette filtered in palette   *)
(* order and adds it to usedColors; when every palette color is used it     *)
(* empties usedColors, returns the unfiltered palette entry at index depth  *)
(* mod palette length, and does not add it.  A call of getNextColor is a    *)
(* step that appends a decoration whose base color did not come off the     *)
(* stack.                                                                   *)
(***************************************************************************)
UnusedInOrder(palette, used) ==
    LET RECURSIVE From(_)
        From(k) == IF k > Len(palette) THEN <<>>
                   ELSE IF palette[k] \in used THEN From(k + 1)
                   ELSE <<palette[k]>> \o From(k + 1)
    IN  From(1)

GetNextColorCalled ==
    /\ pc = "scan"
    /\ Len(decorations') = Len(decorations) + 1
    /\ decorations'[Len(decorations')].source = "getNextColor"

C11_GetNextColorPolicy ==
    [][ GetNextColorCalled =>
          LET unused == UnusedInOrder(baseColors, usedColors)
              got == decorations'[Len(decorations')].baseColor
          IN  IF unused # <<>>
              THEN /\ got = unused[(depth % Len(unused)) + 1]
                   /\ usedColors' = usedColors \cup {got}
              ELSE /\ got = baseColors[(depth % Len(baseColors)) + 1]
                   /\ usedColors' = {} ]_vars

\* The fallback has just been taken by a closing delimiter on an empty stack,
\* after unused colors had been handed out.
C11_Witness ==
    /\ pc = "scan" /\ Len(decorations) >= 3
    /\ usedColors = {}
    /\ decorations[Len(decorations)].class = "closing"
    /\ decorations[Len(decorations)].source = "getNextColor"
    /\ decorations[1].class = "opening"


(***************************************************************************)
(* C12.  With a palette of N colors, when the first N+1 delimiters of the   *)
(* text are openers, the first N take N different unused colors and the     *)
(* (N+1)-th, at depth N, takes the exhaustion fallback: usedColors is       *)
(* emptied and the color is baseColors[N mod N]; and when only closers      *)
(* follow, each lowers depth by one, down to exactly 0 after N+1 of them.   *)
(***************************************************************************)
C12_ExhaustionAtNPlusOne ==
    LET N == Len(baseColors)
        n == Len(decorations)
    IN  (n >= N + 1 /\ \A k \in 1..(N + 1) : decorations[k].class = "opening")
        => /\ \A j, k \in 1..N :
                j # k => decorations[j].baseColor # decorations[k].baseColor
           /\ decorations[N + 1].depth = N
           /\ decorations[N + 1].source = "getNextColor"
           /\ decorations[N + 1].baseColor = baseColors[(N % N) + 1]
           /\ (n = N + 1 => usedColors = {})
           /\ ( (n <= 2 * (N + 1) /\ \A k \in (N + 2)..n : decorations[k].class = "closing")
                => depth = 2 * (N + 1) - n )

\* "((()))" with a palette of two colors, scanned to the end.
C12_Witness ==
    /\ pc = "done" /\ Len(baseColors) = 2
    /\ text = <<"(", "(", "(", ")", ")", ")">>
    /\ Len(decorations) = 6
    /\ decorations[3].depth = 2 /\ decorations[3].baseColor = baseColors[1]
    /\ depth = 0


(***************************************************************************)
(* C13.  In every state of a scan, whatever the text, depth is the number   *)
(* of colors on colorStack, which is the number of openers scanned so far   *)
(* whose color no closer has popped; and a closing delimiter scanned with   *)
(* an empty stack leaves depth and colorStack as they were.                 *)
(***************************************************************************)
OpenUnconsumed(decos) ==
    Cardinality(Openings(decos))
    - Cardinality({k \in Closings(decos) : decos[k].source = "stack"})

ClosingOnEmptyStack ==
    /\ pc = "scan" /\ i < Len(text)
    /\ isClosing(text[i + 1])
    /\ colorStack = <<>>
    /\ i' = i + 1

C13_DepthIsStackSize ==
    /\ [](depth = Len(colorStack) /\ depth = OpenUnconsumed(decorations))
    /\ [][ClosingOnEmptyStack => (depth' = depth /\ colorStack' = colorStack)]_vars

\* A closer met an empty stack, and an opener after it is still open.
C13_Witness ==
    /\ pc = "scan"
    /\ Len(decorations) >= 2
    /\ decorations[1].class = "closing" /\ decorations[1].source = "getNextColor"
    /\ decorations[Len(decorations)].class = "opening"
    /\ depth = 1 /\ Len(colorStack) = 1


(***************************************************************************)
(* C14.  adjustColor(baseColor, depth), for every depth >= 0, keeps the     *)
(* hue, sets the lightness to 35 + 5*(depth mod 3) in the light theme and   *)
(* to 65 - 5*(depth mod 3) in the dark theme, and sets the saturation to    *)
(* max(40, baseSaturation - 10*floor(depth/3)); so for a palette color the  *)
(* lightness is one of 35, 40, 45 (light) or 65, 60, 55 (dark) and the      *)
(* saturation one of 70, 60, 50, 40.                                        *)
(***************************************************************************)
C14_AdjustColorFormula ==
    (ret.done /\ call.fn = "adjustColor")
    => \E q \in 0..call.depth, m \in 0..2 :
          /\ call.depth = 3 * q + m
          /\ ret.value.h = call.baseColor.h
          /\ ret.value.l = IF darkReader THEN 65 - 5 * m ELSE 35 + 5 * m
          /\ ret.value.s = IF call.baseColor.s - 10 * q >= 40
                           THEN call.baseColor.s - 10 * q ELSE 40
          /\ (\E k \in 1..Len(baseColors) : baseColors[k] = call.baseColor)
             => /\ ret.value.l \in (IF darkReader THEN {65, 60, 55} ELSE {35, 40, 45})
                /\ ret.value.s \in {70, 60, 50, 40}

\* A palette color adjusted in the dark theme at a depth where the saturation
\* floor decides.
C14_Witness ==
    /\ ret.done /\ call.fn = "adjustColor"
    /\ darkReader
    /\ call.depth = 13
    /\ call.baseColor = baseColors[2]
    /\ ret.value.s = 40 /\ ret.value.l = 60

(***************************************************************************)
(* C15.  The colors processText assigns depend only on the sequence of      *)
(* opening/closing classes of the text's delimiters: replacing delimiters   *)
(* by others of their class, or changing, removing or inserting characters  *)
(* that are not delimiters, leaves the final depth, colorStack, usedColors  *)
(* and the class, depth and colors of every decoration unchanged.  Every    *)
(* text is compared with the text of its class sequence alone, written      *)
(* with ( and ), which two texts of one class sequence share, and with      *)
(* texts outside the enumerated ones: its delimiters put through the three  *)
(* kinds, and plain characters inserted around each of its characters.      *)
(***************************************************************************)
Openers == <<"(", "[", "{">>
Closers == <<")", "]", "}">>

IsOpener(char) == \E n \in 1..3 : Openers[n] = char
IsCloser(char) == \E n \in 1..3 : Closers[n] = char

\* The delimiters of txt, each replaced by the kind its position and the
\* offset select; other characters replaced by "y".
Rekind(txt, offset) ==
    [k \in 1..Len(txt) |->
        IF IsOpener(txt[k]) THEN Openers[((k + offset) % 3) + 1]
        ELSE IF IsCloser(txt[k]) THEN Closers[((k + 2 * offset) % 3) + 1]
        ELSE "y"]

\* The class sequence of txt alone: ( for an opener, ) for a closer.
ClassSequence(txt) ==
    LET RECURSIVE From(_)
        From(k) == IF k > Len(txt) THEN <<>>
                   ELSE IF IsOpener(txt[k]) THEN <<"(">> \o From(k + 1)
                   ELSE IF IsCloser(txt[k]) THEN <<")">> \o From(k + 1)
                   ELSE From(k + 1)
    IN  From(1)

\* txt with a plain character before each of its characters and at its end.
Padded(txt) ==
    [k \in 1..(2 * Len(txt) + 1) |-> IF k % 2 = 1 THEN "y" ELSE txt[k \div 2]]

ClassPreservingEdits(txt) ==
    {ClassSequence(txt), Padded(txt)} \cup {Rekind(txt, offset) : offset \in 0..2}

Colors(decos) ==
    [k \in 1..Len(decos) |->
        [class |-> decos[k].class, depth |-> decos[k].depth,
         baseColor |-> decos[k].baseColor, adjustedColor |-> decos[k].adjustedColor,
         hexColor |-> decos[k].hexColor]]

C15_ColorsDependOnClassesOnly ==
    pc = "done"
    => \A edited \in ClassPreservingEdits(text) :
          \A r \in {processText(edited, baseColors, darkReader)} :
             /\ r.pc = "done"
             /\ r.depth = depth
             /\ r.colorStack = colorStack
             /\ r.usedColors = usedColors
             /\ Colors(r.decorations) = Colors(decorations)

\* A scanned text with delimiters of two kinds around a plain character,
\* whose edits are other texts.
C15_Witness ==
    /\ pc = "done"
    /\ text = <<"[", "(", "x", ")", "]">>
    /\ Len(decorations) = 4
    /\ ClassSequence(text) = <<"(", "(", ")", ")">>
    /\ Rekind(text, 1) # text


(***************************************************************************)
(* C16.  The base palette is read-only after construction: no step of any   *)
(* processText call, with the getNextColor and adjustColor calls it makes,  *)
(* changes the length, the order or a field of an entry of baseColors.      *)
(***************************************************************************)
C16_PaletteReadOnly == [][baseColors' = baseColors]_vars

\* A scan has adjusted palette colors, and the palette is as constructed.
C16_Witness ==
    /\ pc = "done" /\ Len(decorations) >= 2
    /\ \A k \in 1..Len(decorations) :
          /\ \E n \in 1..Len(baseColors) : decorations[k].baseColor = baseColors[n]
          /\ decorations[k].adjustedColor # decorations[k].baseColor
    /\ baseColors = generateBaseColors(Len(baseColors))


(***************************************************************************)
(* C17.  Every decoration the scan emits, for any text and with the         *)
(* palette exhausted or not, carries the color adjustColor gives for a      *)
(* base color that is an entry of the palette: each delimiter scanned has   *)
(* its decoration, the span written to result shows that color in hex, and  *)
(* colorStack and usedColors hold palette entries only.                     *)
(***************************************************************************)
InPalette(color) == \E n \in 1..Len(baseColors) : baseColors[n] = color

\* The colors of the spans of out, in order.
RECURSIVE SpanColors(_)
SpanColors(out) ==
    IF out = <<>> THEN <<>>
    ELSE IF SpanAtHead(out)
         THEN <<SubSeq(out, 21, 27)>> \o SpanColors(SubSeq(out, 38, Len(out)))
         ELSE SpanColors(Tail(out))

C17_ColorsComeFromPalette ==
    /\ pc # "threw"
    /\ Len(decorations) = Cardinality({k \in 1..i : isDelimiter(text[k])})
    /\ \A k \in 1..Len(decorations) :
          /\ InPalette(decorations[k].baseColor)
          /\ \A adjusted \in {adjustColor(decorations[k].baseColor, decorations[k].depth,
                                          darkReader)} :
                /\ decorations[k].adjustedColor = adjusted
                /\ decorations[k].hexColor =
                       hslToHex(adjusted.h.n, adjusted.h.d, adjusted.s, adjusted.l)
    /\ \A k \in 1..Len(colorStack) : InPalette(colorStack[k])
    /\ \A color \in usedColors : InPalette(color)
    /\ pc = "done" => SpanColors(result) = [k \in 1..Len(decorations) |->
                                               decorations[k].hexColor]

\* An unbalanced text on an exhausted palette: a closer on an empty stack and
\* an opener after the fallback, with colors still on the stack.
C17_Witness ==
    /\ pc = "done" /\ Len(baseColors) = 2
    /\ Len(decorations) >= 4
    /\ decorations[1].class = "closing"
    /\ \E k \in 2..Len(decorations) :
          /\ decorations[k].class = "opening"
          /\ decorations[k].depth >= 2
    /\ colorStack # <<>>


(***************************************************************************)
(* C18.  Scan state is per invocation: each block's markup is what a scan   *)
(* of its text from depth 0, an empty stack and an empty usedColors gives   *)
(* under the theme it was processed in, whatever blocks the instance        *)
(* processed before it; so two blocks of the same text processed under the  *)
(* same theme have identical markup.                                        *)
(***************************************************************************)
C18_ScanStatePerInvocation ==
    \A b \in Blocks :
        pres[b].processed
        => /\ \A fresh \in {RunLoop(InitialLocals(pres[b].textContent), baseColors,
                                    pres[b].processedDark)} :
                 /\ fresh.pc = "done"
                 /\ pres[b].innerHTML = fresh.result
           /\ \A c \in Blocks :
                 ( /\ pres[c].processed
                   /\ pres[c].textContent = pres[b].textContent
                   /\ pres[c].processedDark = pres[b].processedDark )
                 => pres[c].innerHTML = pres[b].innerHTML

\* Two blocks of the same text with delimiters, processed one after the other
\* by one applyToDocument call.
C18_Witness ==
    /\ \A b \in Blocks :
          /\ pres[b].processed /\ ~pres[b].skipped
          /\ pres[b].textContent = <<"(", "x", ")">>
    /\ pres[1].processedDark = pres[2].processedDark
    /\ pres[1].innerHTML = pres[2].innerHTML


(***************************************************************************)
(* C19.  The mutation-driven loop reaches quiescence.  Every run of the     *)
(* script (the load-time call or the observer's callback) leaves every pre  *)
(* block of the document marked; a callback that finds every block marked,  *)
(* as the one triggered by the script's own innerHTML writes does, changes  *)
(* nothing in the document and queues no record; and, the page holding      *)
(* finitely many blocks, the system again and again comes to rest with the  *)
(* script loaded, every pre block marked processed and no record pending.   *)
(***************************************************************************)
NoUnmarkedBlock == \A b \in Blocks : pres[b].inDoc => pres[b].processed

\* What the document shows of the pre blocks.
Dom(blocks) ==
    [b \in DOMAIN blocks |->
        [inDoc |-> blocks[b].inDoc, textContent |-> blocks[b].textContent,
         innerHTML |-> blocks[b].innerHTML, processed |-> blocks[b].processed,
         timesProcessed |-> blocks[b].timesProcessed]]

Quiescent == loaded /\ observing /\ mutations = <<>> /\ NoUnmarkedBlock

\* A step of the script, told from a step of the page by what it leaves
\* alone: the page's steps insert or remove a node or switch the theme.
ScriptRan ==
    /\ otherNodes' = otherNodes
    /\ darkReader' = darkReader
    /\ \A b \in Blocks : pres'[b].inDoc = pres[b].inDoc

CallbackRan == observing /\ mutations # <<>> /\ ScriptRan

C19_ReachesQuiescence ==
    /\ [][ScriptRan => NoUnmarkedBlock']_vars
    /\ [][(CallbackRan /\ NoUnmarkedBlock)
            => (Dom(pres') = Dom(pres) /\ mutations' = <<>>)]_vars
    /\ []<>Quiescent

\* At rest after a callback that was triggered by the script's own write to a
\* block inserted by the page and found that block marked.
C19_Witness ==
    /\ Quiescent
    /\ \E b \in Blocks :
          /\ pres[b].inDoc /\ pres[b].skipped
          /\ pres[b].textContent = <<"(", "x", ")">>
          /\ Len(pres[b].innerHTML) > Len(pres[b].textContent)
    /\ \E b \in Blocks : ~pres[b].inDoc

=============================================================================
